---- MODULE Spec2Model ----
(***************************************************************************)
(* Model of cloud/amazon/elastic_beanstalk.py: the reconciliation of one   *)
(* Elastic Beanstalk environment (states present, absent, restarted)       *)
(* against the platform's records.                                         *)
(*                                                                         *)
(* The platform (boto.beanstalk + AWS) is the environment of the program:  *)
(* it holds applications, application versions and environment records,    *)
(* and moves environments asynchronously Launching/Updating -> Ready,      *)
(* Launching -> Terminated (failed launch), Terminating -> Terminated.     *)
(* One module run executes at a time; every platform call of a handler is  *)
(* one action, and platform steps interleave between the calls (the        *)
(* time.sleep(10) of the poll loops is where they are waited for).         *)
(*                                                                         *)
(* Every mutating call may be refused by the platform, and the environment *)
(* query of retrieve_environment may fail; the three other queries         *)
(* (solution stacks, alias availability, application versions) answer, as  *)
(* their contract has no error outcome.                                    *)
(*                                                                         *)
(* Python values: None is the empty sequence <<>>, a present record r is   *)
(* <<r>>; a local that was never assigned has bound = FALSE.               *)
(*                                                                         *)
(* Spec is the module run against the platform. FairSpec is Spec with the  *)
(* process running on and the platform ending what it began. ReaderSpec    *)
(* is retrieve_environment alone, on every list its query may answer.      *)
(***************************************************************************)
EXTENDS Integers, Sequences, FiniteSets, TLC

\* ------------------------------------------------------------------ bounds
\* number of module runs in one behaviour
MaxRuns == 2

\* ------------------------------------------------------------ input domains
\* application_name of the runs, and another tenant's application
Apps == {"a1"}
OtherApp == "a2"
EnvNames == {"e1", "e2"}
Cnames == {"c1", "c2"}
VersionLabels == {"2.0"}
Buckets == {"b1", "b2"}
Keys == {"k1", "k2"}
\* the platform's advertised solution stacks
AvailableSolutionStacks == {"s1"}
\* "" is solution_stack=None (not supplied), "sX" is not advertised
StackParams == {"", "s1", "sX"}

Statuses == {"Launching", "Updating", "Ready", "Terminating", "Terminated"}

VARIABLES
    applications,        \* platform: names of the applications
    app_versions,        \* platform: application version records
    environments,        \* platform: environment records (Terminated ones linger)
    nextId,              \* platform: next EnvironmentId
    pc,                  \* position of the running handler, "idle" between runs
    params,              \* module.params of the run
    changed,             \* local `changed`
    status,              \* local `status` of the wait-for-Ready loops
    current_environment, \* local of make_present (source of the swap)
    new_environment,     \* local of make_present (destination of the swap)
    result,              \* how the run ended
    calls,               \* mutating platform calls issued by the run, in order
    start,               \* platform environment records when the run started
    branch,              \* what check_dns_availability answered in this run
    prev,                \* params and result of the previous run
    runs,                \* number of runs started
    reader_list,         \* retrieve_environment: local `environment_list`
    reader_environment   \* retrieve_environment: local `environment`, returned

vars == <<applications, app_versions, environments, nextId, pc, params, changed,
          status, current_environment, new_environment, result, calls, start,
          branch, prev, runs, reader_list, reader_environment>>

platform == <<applications, app_versions, environments, nextId>>
locals == <<changed, status, current_environment, new_environment>>
reader == <<reader_list, reader_environment>>

\* ---------------------------------------------------------- Python values
None == <<>>
Some(r) == <<r>>
Unbound == [bound |-> FALSE, value |-> None]
Bound(v) == [bound |-> TRUE, value |-> v]

\* "my_cname.elasticbeanstalk.com" as its labels
CnameOf(prefix) == <<prefix, "elasticbeanstalk", "com">>
\* environment["CNAME"].split(".")[:1][0]
CnamePrefix(cname) == SubSeq(cname, 1, 1)[1]
\* the alias the platform assigns to an environment created without cname_prefix
TemporaryPrefix(id) == "tmp" \o ToString(id)

\* ------------------------------------------------------------ the platform
RECURSIVE SeqById(_)
\* the records of S listed by ascending EnvironmentId (creation order)
SeqById(S) ==
    IF S = {} THEN <<>>
    ELSE LET first == CHOOSE e \in S : \A f \in S : e.EnvironmentId <= f.EnvironmentId
         IN <<first>> \o SeqById(S \ {first})

\* beanstalk.describe_environments(application_name, environment_names=[name])
describe_environments(application_name, environment_name) ==
    SeqById({e \in environments : /\ e.ApplicationName = application_name
                                  /\ e.EnvironmentName = environment_name})

\* beanstalk.describe_environments(application_name)
describe_application_environments(application_name) ==
    SeqById({e \in environments : e.ApplicationName = application_name})

\* beanstalk.check_dns_availability(cname)["..."]["Available"]
check_dns_availability(cname) ==
    \A e \in environments :
        e.Status # "Terminated" => CnamePrefix(e.CNAME) # cname

\* an environment name is in use while a non-Terminated environment bears it
NameInUse(environment_name) ==
    \E e \in environments :
        e.EnvironmentName = environment_name /\ e.Status # "Terminated"

\* the record create_environment adds; cname_prefix = "" when none is passed
NewEnvironment(application_name, environment_name, cname_prefix) ==
    [EnvironmentId |-> nextId,
     EnvironmentName |-> environment_name,
     ApplicationName |-> application_name,
     Status |-> "Launching",
     CNAME |-> CnameOf(IF cname_prefix = "" THEN TemporaryPrefix(nextId)
                       ELSE cname_prefix)]

\* what create_environment may answer: "ok", "exists" (Environment X already
\* exists.) or "error" (quota, privileges, any other server error)
CreateEnvironmentAnswers(application_name, environment_name, cname_prefix) ==
    IF NameInUse(environment_name) THEN {"exists", "error"}
    ELSE IF \/ application_name \notin applications
            \/ (cname_prefix # "" /\ ~check_dns_availability(cname_prefix))
         THEN {"error"}
         ELSE {"ok", "error"}

\* the platform's records after a successful create_environment: a lingering
\* Terminated record of the same name gives way to the new one
EnvironmentsAfterCreate(application_name, environment_name, cname_prefix) ==
    {e \in environments : e.EnvironmentName # environment_name}
        \cup {NewEnvironment(application_name, environment_name, cname_prefix)}

\* whether (id, name) names a Ready environment
IsReady(id, name) ==
    \E e \in environments :
        e.EnvironmentId = id /\ e.EnvironmentName = name /\ e.Status = "Ready"

\* what swap_environment_cnames may answer
SwapAnswers(src_id, src_name, dst_id, dst_name) ==
    IF IsReady(src_id, src_name) /\ IsReady(dst_id, dst_name)
    THEN {"ok", "error"} ELSE {"error"}

\* the platform's records after a successful swap_environment_cnames
EnvironmentsAfterSwap(src_id, dst_id) ==
    LET src == CHOOSE e \in environments : e.EnvironmentId = src_id
        dst == CHOOSE e \in environments : e.EnvironmentId = dst_id
    IN {IF e.EnvironmentId = src_id
            THEN [e EXCEPT !.CNAME = dst.CNAME, !.Status = "Updating"]
        ELSE IF e.EnvironmentId = dst_id
            THEN [e EXCEPT !.CNAME = src.CNAME, !.Status = "Updating"]
        ELSE e : e \in environments}

\* what terminate_environment(environment_name) may answer
TerminateAnswers(environment_name) ==
    IF \E e \in environments : /\ e.EnvironmentName = environment_name
                               /\ e.Status \in {"Ready", "Launching", "Updating"}
    THEN {"ok", "error"} ELSE {"error"}

\* what restart_app_server(environment_name) may answer
RestartAnswers(environment_name) ==
    IF \E e \in environments : /\ e.EnvironmentName = environment_name
                               /\ e.Status = "Ready"
    THEN {"ok", "error"} ELSE {"error"}

\* the records with the live environment of that name moved to status s
EnvironmentsWithStatus(environment_name, s) ==
    {IF e.EnvironmentName = environment_name /\ e.Status # "Terminated"
        THEN [e EXCEPT !.Status = s] ELSE e : e \in environments}

\* ------------------------------------------------------------ the reader
\* retrieve_environment, lines 154-160, on the list the query returned
retrieve_environment(environment_list) ==
    IF Len(environment_list) < 1 THEN None
    ELSE IF environment_list[1].Status \in {"Terminated"} THEN None
         ELSE Some(environment_list[1])

\* the reader on the run's (application_name, environment_name)
Retrieved ==
    retrieve_environment(
        describe_environments(params.application_name, params.environment_name))

\* ------------------------------------------------------------ run outcomes
MsgRetrieve == "Unable to retrieve environment information"
MsgNoStack == "A solution stack must be provided."
MsgUnknownStack == "Solution stack is not in the list of available solution stacks."
MsgCreateApp == "Unable to create Application"
MsgVersionMismatch == "S3 path for existing Application version does not match arguments supplied"
MsgCreateVersion == "Unable to create Application version"
MsgCreateEnv == "Unable to create Environment"
MsgDeriveCname == "Unable to derive CNAME prefix from environment"
MsgSwap == "Unable to swap CNAMEs"
MsgCnameInUse == "CNAME already in use and 'redeploy' parameter not specified."
MsgNotFound == "Environment not found for Application"
MsgTerminate == "Unable to terminate Environment"
MsgRestart == "Unable to restart application server"

NoResult == [kind |-> "none", changed |-> FALSE, environment |-> None, msg |-> ""]
\* module.exit_json(changed=changed, environment=environment), line 453
exit_json(ch, env) ==
    [kind |-> "exit_json", changed |-> ch, environment |-> env, msg |-> ""]
\* module.fail_json(msg=...); `changed` is the local's value when the run failed
fail_json(ch, m) ==
    [kind |-> "fail_json", changed |-> ch, environment |-> None, msg |-> m]
\* an exception no handler catches: the run ends in a traceback
exception(ch, name) ==
    [kind |-> "exception", changed |-> ch, environment |-> None, msg |-> name]

\* the run ends with outcome r; its locals die with it
Finish(r) ==
    /\ pc' = "done"
    /\ result' = r
    /\ changed' = FALSE
    /\ status' = "None"
    /\ current_environment' = None
    /\ new_environment' = Unbound

\* the run goes on at label l
Goto(l) == pc' = l /\ result' = result

\* the parameters of a run: those a handler never reads keep one value (an
\* absent or restarted run reads two names; a present run whose solution
\* stack is refused ends before it reads the version arguments)
ParamsFor(st) ==
    IF st = "present"
    THEN [state : {"present"}, application_name : Apps, environment_name : EnvNames,
          cname : Cnames, application_version : VersionLabels,
          application_s3_bucket : Buckets, application_s3_key : Keys,
          solution_stack : AvailableSolutionStacks, redeploy : BOOLEAN]
         \cup
         [state : {"present"}, application_name : Apps, environment_name : EnvNames,
          cname : Cnames, application_version : {"2.0"},
          application_s3_bucket : {"b1"}, application_s3_key : {"k1"},
          solution_stack : StackParams \ AvailableSolutionStacks, redeploy : BOOLEAN]
    ELSE [state : {st}, application_name : Apps, environment_name : EnvNames,
          cname : {"c1"}, application_version : {"2.0"},
          application_s3_bucket : {"b1"}, application_s3_key : {"k1"},
          solution_stack : {""}, redeploy : {FALSE}]

NoParams ==
    [state |-> "none", application_name |-> "a1", environment_name |-> "e1",
     cname |-> "c1", application_version |-> "2.0", application_s3_bucket |-> "b1",
     application_s3_key |-> "k1", solution_stack |-> "", redeploy |-> FALSE]

NoPrev == [repeat |-> FALSE, kind |-> "none", changed |-> FALSE]

\* an environment of another tenant's application that holds the alias c
OtherEnvironment(c) ==
    [EnvironmentId |-> 0, EnvironmentName |-> "f1", ApplicationName |-> OtherApp,
     Status |-> "Ready", CNAME |-> CnameOf(c)]

Init ==
    /\ applications = {}
    /\ app_versions = {}
    /\ environments \in {{}} \cup {{OtherEnvironment(c)} : c \in Cnames}
    /\ nextId = 1
    /\ pc = "idle"
    /\ params = NoParams
    /\ changed = FALSE
    /\ status = "None"
    /\ current_environment = None
    /\ new_environment = Unbound
    /\ result = NoResult
    /\ calls = <<>>
    /\ start = {}
    /\ branch = "none"
    /\ prev = NoPrev
    /\ runs = 0
    /\ reader_list = <<>>
    /\ reader_environment = None

\* main, lines 446-452: a new invocation of the module dispatches on `state`
main ==
    /\ pc \in {"idle", "done"}
    /\ runs < MaxRuns
    /\ \E st \in {"present", "absent", "restarted"} : \E p \in ParamsFor(st) :
        /\ params' = p
        /\ pc' = st
        /\ prev' = IF pc = "done" /\ p = params
                   THEN [repeat |-> TRUE, kind |-> result.kind,
                         changed |-> result.changed]
                   ELSE NoPrev
    /\ runs' = runs + 1
    /\ result' = NoResult
    /\ calls' = <<>>
    /\ start' = environments
    /\ branch' = "none"
    /\ changed' = FALSE
    /\ status' = "None"
    /\ current_environment' = None
    /\ new_environment' = Unbound
    /\ UNCHANGED <<platform, reader>>

\* ------------------------------------------------------------ make_present
\* line 189 with the `not` lost: the short-circuit taken on redeploy only
ShortCircuitOnRedeploy(environment) == environment # None /\ params.redeploy

\* line 189 without `and not redeploy`: any existing environment ends the run
ShortCircuitAlways(environment) == environment # None

\* line 189: `if environment and not redeploy`
ShortCircuit(environment) == environment # None /\ ~params.redeploy

\* lines 182-190: read the environment; short-circuit when it exists and
\* redeploy is not requested
make_present_retrieve ==
    /\ pc = "present"
    /\ \E read_ok \in BOOLEAN :
        IF ~read_ok THEN Finish(fail_json(changed, MsgRetrieve))
        ELSE IF ShortCircuit(Retrieved)
             THEN Finish(exit_json(changed, Retrieved))
             ELSE Goto("solution_stacks") /\ UNCHANGED locals
    /\ UNCHANGED <<platform, params, calls, start, branch, prev, runs, reader>>

\* line 196 with the test lost: any solution stack is let through
NoUnknownSolutionStack(solution_stack) == FALSE

\* line 196: `if solution_stack not in available_solution_stacks`
UnknownSolutionStack(solution_stack) == solution_stack \notin AvailableSolutionStacks

\* lines 192-202: the solution stack must be supplied and advertised
make_present_solution_stacks ==
    /\ pc = "solution_stacks"
    /\ IF params.solution_stack = ""
       THEN Finish(fail_json(changed, MsgNoStack))
       ELSE IF UnknownSolutionStack(params.solution_stack)
       THEN Finish(fail_json(changed, MsgUnknownStack))
       ELSE Goto("create_application") /\ UNCHANGED locals
    /\ UNCHANGED <<platform, params, calls, start, branch, prev, runs, reader>>

\* line 209 with every error let through, not only "already exists"
NoApplicationErrorIsFatal(answer) == FALSE

\* line 209: any error but "Application X already exists." is fatal
ApplicationErrorIsFatal(answer) == answer # "exists"

\* lines 205-216: create the application; continue if it already exists
make_present_create_application ==
    /\ pc = "create_application"
    /\ \E answer \in {"error"} \cup
            (IF params.application_name \in applications THEN {"exists"} ELSE {"ok"}) :
        /\ calls' = Append(calls, <<"create_application", answer>>)
        /\ IF answer = "ok"
           THEN /\ Goto("create_application_version")
                /\ changed' = TRUE
                /\ applications' = applications \cup {params.application_name}
                /\ UNCHANGED <<status, current_environment, new_environment>>
           ELSE IF ApplicationErrorIsFatal(answer)
           THEN Finish(fail_json(changed, MsgCreateApp)) /\ UNCHANGED applications
           ELSE /\ Goto("create_application_version")
                /\ UNCHANGED <<locals, applications>>
    /\ UNCHANGED <<app_versions, environments, nextId, params, start, branch, prev, runs, reader>>

\* the recorded version with that label, as describe_application_versions lists it
ExistingVersions ==
    {v \in app_versions : /\ v.ApplicationName = params.application_name
                          /\ v.VersionLabel = params.application_version}

\* lines 239-240 with the comparison of the keys lost
S3BucketMismatch(existing_version) ==
    params.application_s3_bucket # existing_version.S3Bucket

\* lines 239-240: the recorded source bundle disagrees with the arguments
S3PathMismatch(existing_version) ==
    \/ params.application_s3_bucket # existing_version.S3Bucket
    \/ params.application_s3_key # existing_version.S3Key

\* lines 221-255 with the fail_json of lines 247-253 lost: a refused version
\* creation lets the run go on
make_present_create_application_version_lenient ==
    /\ pc = "create_application_version"
    /\ \E answer \in {"error"} \cup
            (IF ExistingVersions # {} THEN {"exists"} ELSE {"ok"}) :
        /\ calls' = Append(calls, <<"create_application_version", answer>>)
        /\ IF answer = "error"
           THEN Goto("check_dns_availability") /\ UNCHANGED <<locals, app_versions>>
           ELSE IF answer = "exists"
           THEN /\ UNCHANGED app_versions
                /\ IF S3PathMismatch(CHOOSE v \in ExistingVersions : TRUE)
                   THEN Finish(fail_json(changed, MsgVersionMismatch))
                   ELSE Goto("check_dns_availability") /\ UNCHANGED locals
           ELSE /\ Goto("check_dns_availability")
                /\ changed' = TRUE
                /\ app_versions' = app_versions \cup
                       {[ApplicationName |-> params.application_name,
                         VersionLabel |-> params.application_version,
                         S3Bucket |-> params.application_s3_bucket,
                         S3Key |-> params.application_s3_key]}
                /\ UNCHANGED <<status, current_environment, new_environment>>
    /\ UNCHANGED <<applications, environments, nextId, params, start, branch, prev, runs, reader>>

\* lines 221-255: create the application version; if the label exists its
\* bucket and key must be the requested ones
make_present_create_application_version ==
    /\ pc = "create_application_version"
    /\ \E answer \in {"error"} \cup
            (IF ExistingVersions # {} THEN {"exists"} ELSE {"ok"}) :
        /\ calls' = Append(calls, <<"create_application_version", answer>>)
        /\ IF answer = "error"
           THEN Finish(fail_json(changed, MsgCreateVersion)) /\ UNCHANGED app_versions
           ELSE IF answer = "exists"
           THEN /\ UNCHANGED app_versions
                /\ IF S3PathMismatch(CHOOSE v \in ExistingVersions : TRUE)
                   THEN Finish(fail_json(changed, MsgVersionMismatch))
                   ELSE Goto("check_dns_availability") /\ UNCHANGED locals
           ELSE /\ Goto("check_dns_availability")
                /\ changed' = TRUE
                /\ app_versions' = app_versions \cup
                       {[ApplicationName |-> params.application_name,
                         VersionLabel |-> params.application_version,
                         S3Bucket |-> params.application_s3_bucket,
                         S3Key |-> params.application_s3_key]}
                /\ UNCHANGED <<status, current_environment, new_environment>>
    /\ UNCHANGED <<applications, environments, nextId, params, start, branch, prev, runs, reader>>

\* lines 261-263, 285-286, 348-349: is the CNAME free, else is a swap asked for
make_present_check_dns_availability ==
    /\ pc = "check_dns_availability"
    /\ IF check_dns_availability(params.cname)
       THEN Goto("create_environment") /\ branch' = "free" /\ UNCHANGED locals
       ELSE IF params.redeploy
       THEN Goto("current_environment") /\ branch' = "taken" /\ UNCHANGED locals
       ELSE Finish(fail_json(changed, MsgCnameInUse)) /\ branch' = "taken"
    /\ UNCHANGED <<platform, params, calls, start, prev, runs, reader>>

\* the wait loops left after the first read, whatever status it shows
KeepWaitingForARead(st) == FALSE

\* lines 282, 327, 345, 401 as `while True`: no status ends the loop
KeepWaitingForever(st) == TRUE

\* lines 282, 327, 345, 401: the loop goes on `while status != "Ready"`
KeepWaiting(st) == st # "Ready"

\* line 376 with the loop never entered
NeverRetrievable(environment) == FALSE

\* line 376: the loop goes on `while retrieve_environment(module, beanstalk)`
StillRetrievable(environment) == environment # None

\* one iteration of `while status != "Ready"`: sleep, read, subscript ["Status"];
\* the loop is left for label l once the status read is Ready
WaitForReady(l) ==
    \E read_ok \in BOOLEAN :
        IF ~read_ok THEN Finish(fail_json(changed, MsgRetrieve))
        ELSE IF Retrieved = None THEN Finish(exception(changed, "TypeError"))
        ELSE /\ status' = Retrieved[1].Status
             /\ Goto(IF KeepWaiting(Retrieved[1].Status) THEN pc ELSE l)
             /\ UNCHANGED <<changed, current_environment, new_environment>>

\* lines 264-280 with `changed = True` of line 280 lost
make_present_create_environment_unflagged ==
    /\ pc = "create_environment"
    /\ \E answer \in CreateEnvironmentAnswers(params.application_name,
                        params.environment_name, params.cname) :
        /\ calls' = Append(calls, <<"create_environment", answer>>)
        /\ IF answer # "ok"
           THEN Finish(fail_json(changed, MsgCreateEnv)) /\ UNCHANGED <<environments, nextId>>
           ELSE /\ Goto("wait_created")
                /\ status' = "None"
                /\ environments' = EnvironmentsAfterCreate(params.application_name,
                                       params.environment_name, params.cname)
                /\ nextId' = nextId + 1
                /\ UNCHANGED <<changed, current_environment, new_environment>>
    /\ UNCHANGED <<applications, app_versions, params, start, branch, prev, runs, reader>>

\* lines 264-280: the CNAME is free, create the environment under it
make_present_create_environment ==
    /\ pc = "create_environment"
    /\ \E answer \in CreateEnvironmentAnswers(params.application_name,
                        params.environment_name, params.cname) :
        /\ calls' = Append(calls, <<"create_environment", answer>>)
        /\ IF answer # "ok"
           THEN Finish(fail_json(changed, MsgCreateEnv)) /\ UNCHANGED <<environments, nextId>>
           ELSE /\ Goto("wait_created")
                /\ changed' = TRUE
                /\ status' = "None"
                /\ environments' = EnvironmentsAfterCreate(params.application_name,
                                       params.environment_name, params.cname)
                /\ nextId' = nextId + 1
                /\ UNCHANGED <<current_environment, new_environment>>
    /\ UNCHANGED <<applications, app_versions, params, start, branch, prev, runs, reader>>

\* lines 281-284: wait for the created environment
make_present_wait_created ==
    /\ pc = "wait_created"
    /\ WaitForReady("return")
    /\ UNCHANGED <<platform, params, calls, start, branch, prev, runs, reader>>

\* next(environment for environment in environment_list if prefix == cname)
MatchingCname(environment_list, cname) ==
    SelectSeq(environment_list, LAMBDA e : CnamePrefix(e.CNAME) = cname)

\* lines 287-304: the environment of the application that holds the CNAME
make_present_current_environment ==
    /\ pc = "current_environment"
    /\ \E describe_ok \in BOOLEAN :
        LET found == MatchingCname(
                         describe_application_environments(params.application_name),
                         params.cname)
        IN IF ~describe_ok THEN Finish(fail_json(changed, MsgRetrieve))
           ELSE IF found = <<>> THEN Finish(exception(changed, "StopIteration"))
           ELSE /\ current_environment' = Some(found[1])
                /\ Goto("create_new_environment")
                /\ UNCHANGED <<changed, status, new_environment>>
    /\ UNCHANGED <<platform, params, calls, start, branch, prev, runs, reader>>

\* lines 306-326 with cname_prefix=cname passed as at line 270: the new
\* environment asks for the requested alias at its creation
make_present_create_new_environment_with_cname ==
    /\ pc = "create_new_environment"
    /\ \E answer \in CreateEnvironmentAnswers(params.application_name,
                        params.environment_name, params.cname) :
        /\ calls' = Append(calls, <<"create_environment", answer>>)
        /\ IF answer = "error"
           THEN Finish(fail_json(changed, MsgCreateEnv)) /\ UNCHANGED <<environments, nextId>>
           ELSE IF answer = "exists"
           THEN Goto("swap") /\ UNCHANGED <<locals, environments, nextId>>
           ELSE /\ Goto("wait_new")
                /\ changed' = TRUE
                /\ status' = "None"
                /\ environments' = EnvironmentsAfterCreate(params.application_name,
                                       params.environment_name, params.cname)
                /\ nextId' = nextId + 1
                /\ UNCHANGED <<current_environment, new_environment>>
    /\ UNCHANGED <<applications, app_versions, params, start, branch, prev, runs, reader>>

\* lines 306-326: create the new environment without a CNAME; "already exists"
\* is let through, with new_environment never assigned
make_present_create_new_environment ==
    /\ pc = "create_new_environment"
    /\ \E answer \in CreateEnvironmentAnswers(params.application_name,
                        params.environment_name, "") :
        /\ calls' = Append(calls, <<"create_environment", answer>>)
        /\ IF answer = "error"
           THEN Finish(fail_json(changed, MsgCreateEnv)) /\ UNCHANGED <<environments, nextId>>
           ELSE IF answer = "exists"
           THEN Goto("swap") /\ UNCHANGED <<locals, environments, nextId>>
           ELSE /\ Goto("wait_new")
                /\ changed' = TRUE
                /\ status' = "None"
                /\ environments' = EnvironmentsAfterCreate(params.application_name,
                                       params.environment_name, "")
                /\ nextId' = nextId + 1
                /\ UNCHANGED <<current_environment, new_environment>>
    /\ UNCHANGED <<applications, app_versions, params, start, branch, prev, runs, reader>>

\* lines 326-329 with the wait loop lost: the new environment is read at once
make_present_wait_new_skipped ==
    /\ pc = "wait_new"
    /\ Goto("new_environment")
    /\ UNCHANGED locals
    /\ UNCHANGED <<platform, params, calls, start, branch, prev, runs, reader>>

\* lines 326-329: wait for the new environment
make_present_wait_new ==
    /\ pc = "wait_new"
    /\ WaitForReady("new_environment")
    /\ UNCHANGED <<platform, params, calls, start, branch, prev, runs, reader>>

\* line 330: new_environment = retrieve_environment(module, beanstalk)
make_present_new_environment ==
    /\ pc = "new_environment"
    /\ \E read_ok \in BOOLEAN :
        IF ~read_ok THEN Finish(fail_json(changed, MsgRetrieve))
        ELSE /\ new_environment' = Bound(Retrieved)
             /\ Goto("swap")
             /\ UNCHANGED <<changed, status, current_environment>>
    /\ UNCHANGED <<platform, params, calls, start, branch, prev, runs, reader>>

\* lines 332-344 with the fail_json of line 341 lost: a refused swap lets the
\* run go on to its final read
make_present_swap_lenient ==
    /\ pc = "swap"
    /\ IF ~new_environment.bound
       THEN /\ Finish(exception(changed, "UnboundLocalError"))
            /\ UNCHANGED <<environments, calls>>
       ELSE IF new_environment.value = None
       THEN /\ Finish(exception(changed, "TypeError"))
            /\ UNCHANGED <<environments, calls>>
       ELSE LET src == current_environment[1]
                dst == new_environment.value[1]
            IN \E answer \in SwapAnswers(src.EnvironmentId, src.EnvironmentName,
                                         dst.EnvironmentId, dst.EnvironmentName) :
                /\ calls' = Append(calls, <<"swap_environment_cnames", answer>>)
                /\ IF answer = "error"
                   THEN Goto("return") /\ UNCHANGED <<locals, environments>>
                   ELSE /\ Goto("wait_swapped")
                        /\ changed' = TRUE
                        /\ status' = "None"
                        /\ environments' =
                               EnvironmentsAfterSwap(src.EnvironmentId, dst.EnvironmentId)
                        /\ UNCHANGED <<current_environment, new_environment>>
    /\ UNCHANGED <<applications, app_versions, nextId, params, start, branch, prev, runs, reader>>

\* lines 332-344: swap the CNAME from the environment that has it to the new one
make_present_swap ==
    /\ pc = "swap"
    /\ IF ~new_environment.bound
       THEN /\ Finish(exception(changed, "UnboundLocalError"))
            /\ UNCHANGED <<environments, calls>>
       ELSE IF new_environment.value = None
       THEN /\ Finish(exception(changed, "TypeError"))
            /\ UNCHANGED <<environments, calls>>
       ELSE LET src == current_environment[1]
                dst == new_environment.value[1]
            IN \E answer \in SwapAnswers(src.EnvironmentId, src.EnvironmentName,
                                         dst.EnvironmentId, dst.EnvironmentName) :
                /\ calls' = Append(calls, <<"swap_environment_cnames", answer>>)
                /\ IF answer = "error"
                   THEN Finish(fail_json(changed, MsgSwap)) /\ UNCHANGED environments
                   ELSE /\ Goto("wait_swapped")
                        /\ changed' = TRUE
                        /\ status' = "None"
                        /\ environments' =
                               EnvironmentsAfterSwap(src.EnvironmentId, dst.EnvironmentId)
                        /\ UNCHANGED <<current_environment, new_environment>>
    /\ UNCHANGED <<applications, app_versions, nextId, params, start, branch, prev, runs, reader>>

\* lines 344-347: wait after the swap
make_present_wait_swapped ==
    /\ pc = "wait_swapped"
    /\ WaitForReady("return")
    /\ UNCHANGED <<platform, params, calls, start, branch, prev, runs, reader>>

\* line 350 returning the record read before the swap instead of a fresh read
make_present_return_stale ==
    /\ pc = "return"
    /\ \E read_ok \in BOOLEAN :
        IF ~read_ok THEN Finish(fail_json(changed, MsgRetrieve))
        ELSE Finish(exit_json(changed, IF new_environment.bound
                                       THEN new_environment.value ELSE Retrieved))
    /\ UNCHANGED <<platform, params, calls, start, branch, prev, runs, reader>>

\* line 350: return (changed, retrieve_environment(module, beanstalk))
make_present_return ==
    /\ pc = "return"
    /\ \E read_ok \in BOOLEAN :
        IF ~read_ok THEN Finish(fail_json(changed, MsgRetrieve))
        ELSE Finish(exit_json(changed, Retrieved))
    /\ UNCHANGED <<platform, params, calls, start, branch, prev, runs, reader>>

\* ------------------------------------------------------------- make_absent
\* lines 359, 388 with the test lost: the run goes on without an environment
NeverNotFound(environment) == FALSE

\* lines 359, 388: `if not retrieve_environment(module, beanstalk)`
NotFound(environment) == environment = None

\* lines 357-363: the environment must exist
make_absent_retrieve ==
    /\ pc = "absent"
    /\ \E read_ok \in BOOLEAN :
        IF ~read_ok THEN Finish(fail_json(changed, MsgRetrieve))
        ELSE IF NotFound(Retrieved) THEN Finish(fail_json(changed, MsgNotFound))
        ELSE Goto("terminate") /\ UNCHANGED locals
    /\ UNCHANGED <<platform, params, calls, start, branch, prev, runs, reader>>

\* lines 365-375: request the termination
make_absent_terminate ==
    /\ pc = "terminate"
    /\ \E answer \in TerminateAnswers(params.environment_name) :
        /\ calls' = Append(calls, <<"terminate_environment", answer>>)
        /\ IF answer = "error"
           THEN Finish(fail_json(changed, MsgTerminate)) /\ UNCHANGED environments
           ELSE /\ Goto("wait_terminated")
                /\ changed' = TRUE
                /\ environments' =
                       EnvironmentsWithStatus(params.environment_name, "Terminating")
                /\ UNCHANGED <<status, current_environment, new_environment>>
    /\ UNCHANGED <<applications, app_versions, nextId, params, start, branch, prev, runs, reader>>

\* lines 376-377 with the termination requested again on every iteration that
\* still reads the environment
make_absent_wait_terminated_retrying ==
    /\ pc = "wait_terminated"
    /\ \E read_ok \in BOOLEAN :
        IF ~read_ok THEN Finish(fail_json(changed, MsgRetrieve))
        ELSE /\ Goto(IF StillRetrievable(Retrieved) THEN "terminate" ELSE "absent_return")
             /\ UNCHANGED locals
    /\ UNCHANGED <<platform, params, calls, start, branch, prev, runs, reader>>

\* lines 376-377: one iteration of `while retrieve_environment(...)`
make_absent_wait_terminated ==
    /\ pc = "wait_terminated"
    /\ \E read_ok \in BOOLEAN :
        IF ~read_ok THEN Finish(fail_json(changed, MsgRetrieve))
        ELSE /\ Goto(IF StillRetrievable(Retrieved) THEN pc ELSE "absent_return")
             /\ UNCHANGED locals
    /\ UNCHANGED <<platform, params, calls, start, branch, prev, runs, reader>>

\* lines 378-379: environment = retrieve_environment(...); return
make_absent_return ==
    /\ pc = "absent_return"
    /\ \E read_ok \in BOOLEAN :
        IF ~read_ok THEN Finish(fail_json(changed, MsgRetrieve))
        ELSE Finish(exit_json(changed, Retrieved))
    /\ UNCHANGED <<platform, params, calls, start, branch, prev, runs, reader>>

\* ---------------------------------------------------------- make_restarted
\* lines 386-392: the environment must exist
make_restarted_retrieve ==
    /\ pc = "restarted"
    /\ \E read_ok \in BOOLEAN :
        IF ~read_ok THEN Finish(fail_json(changed, MsgRetrieve))
        ELSE IF NotFound(Retrieved) THEN Finish(fail_json(changed, MsgNotFound))
        ELSE Goto("restart") /\ UNCHANGED locals
    /\ UNCHANGED <<platform, params, calls, start, branch, prev, runs, reader>>

\* lines 394-400: request the restart of the application server
make_restarted_restart ==
    /\ pc = "restart"
    /\ \E answer \in RestartAnswers(params.environment_name) :
        /\ calls' = Append(calls, <<"restart_app_server", answer>>)
        /\ IF answer = "error"
           THEN Finish(fail_json(changed, MsgRestart)) /\ UNCHANGED environments
           ELSE /\ Goto("wait_restarted")
                /\ changed' = TRUE
                /\ status' = "None"
                /\ environments' =
                       EnvironmentsWithStatus(params.environment_name, "Updating")
                /\ UNCHANGED <<current_environment, new_environment>>
    /\ UNCHANGED <<applications, app_versions, nextId, params, start, branch, prev, runs, reader>>

\* lines 401-403: wait for the restarted environment
make_restarted_wait_restarted ==
    /\ pc = "wait_restarted"
    /\ WaitForReady("restarted_return")
    /\ UNCHANGED <<platform, params, calls, start, branch, prev, runs, reader>>

\* lines 404-405: environment = retrieve_environment(...); return
make_restarted_return ==
    /\ pc = "restarted_return"
    /\ \E read_ok \in BOOLEAN :
        IF ~read_ok THEN Finish(fail_json(changed, MsgRetrieve))
        ELSE Finish(exit_json(changed, Retrieved))
    /\ UNCHANGED <<platform, params, calls, start, branch, prev, runs, reader>>

\* ------------------------------------------------- the platform's own steps
\* a Launching or Updating environment becomes Ready
platform_ready ==
    /\ \E e \in environments :
        /\ e.Status \in {"Launching", "Updating"}
        /\ environments' = (environments \ {e}) \cup {[e EXCEPT !.Status = "Ready"]}
    /\ UNCHANGED <<applications, app_versions, nextId, pc, params, locals, result,
                   calls, start, branch, prev, runs, reader>>

\* a launch fails: the environment ends Terminated
platform_launch_failed ==
    /\ \E e \in environments :
        /\ e.Status = "Launching"
        /\ environments' = (environments \ {e}) \cup {[e EXCEPT !.Status = "Terminated"]}
    /\ UNCHANGED <<applications, app_versions, nextId, pc, params, locals, result,
                   calls, start, branch, prev, runs, reader>>

\* a requested termination completes
platform_terminated ==
    /\ \E e \in environments :
        /\ e.Status = "Terminating"
        /\ environments' = (environments \ {e}) \cup {[e EXCEPT !.Status = "Terminated"]}
    /\ UNCHANGED <<applications, app_versions, nextId, pc, params, locals, result,
                   calls, start, branch, prev, runs, reader>>

\* the record of a Terminated environment expires
platform_expired ==
    /\ \E e \in environments :
        /\ e.Status = "Terminated"
        /\ environments' = environments \ {e}
    /\ UNCHANGED <<applications, app_versions, nextId, pc, params, locals, result,
                   calls, start, branch, prev, runs, reader>>

Next ==
    \/ main
    \/ make_present_retrieve
    \/ make_present_solution_stacks
    \/ make_present_create_application
    \/ make_present_create_application_version
    \/ make_present_check_dns_availability
    \/ make_present_create_environment
    \/ make_present_wait_created
    \/ make_present_current_environment
    \/ make_present_create_new_environment
    \/ make_present_wait_new
    \/ make_present_new_environment
    \/ make_present_swap
    \/ make_present_wait_swapped
    \/ make_present_return
    \/ make_absent_retrieve
    \/ make_absent_terminate
    \/ make_absent_wait_terminated
    \/ make_absent_return
    \/ make_restarted_retrieve
    \/ make_restarted_restart
    \/ make_restarted_wait_restarted
    \/ make_restarted_return
    \/ platform_ready
    \/ platform_launch_failed
    \/ platform_terminated
    \/ platform_expired

Spec == Init /\ [][Next]_vars

\* the positions of the handlers inside their poll loops
PollLabels ==
    {"wait_created", "wait_new", "wait_swapped", "wait_terminated", "wait_restarted"}

\* the steps of the running handler
Handlers ==
    \/ make_present_retrieve
    \/ make_present_solution_stacks
    \/ make_present_create_application
    \/ make_present_create_application_version
    \/ make_present_check_dns_availability
    \/ make_present_create_environment
    \/ make_present_wait_created
    \/ make_present_current_environment
    \/ make_present_create_new_environment
    \/ make_present_wait_new
    \/ make_present_new_environment
    \/ make_present_swap
    \/ make_present_wait_swapped
    \/ make_present_return
    \/ make_absent_retrieve
    \/ make_absent_terminate
    \/ make_absent_wait_terminated
    \/ make_absent_return
    \/ make_restarted_retrieve
    \/ make_restarted_restart
    \/ make_restarted_wait_restarted
    \/ make_restarted_return

\* a step of the running handler other than a poll iteration whose read the
\* platform refuses: the process keeps running, and the platform is not bound
\* to ever refuse a read
HandlerProgress ==
    /\ Handlers
    /\ pc \in PollLabels => result'.msg # MsgRetrieve

\* the process runs on, and the platform ends what it began: an environment
\* that is Launching or Updating leaves that status, a Terminating one
\* becomes Terminated
FairSpec ==
    /\ Spec
    /\ WF_vars(HandlerProgress)
    /\ WF_vars(platform_ready)
    /\ WF_vars(platform_terminated)

\* ------------------------------------------- retrieve_environment alone
\* the longest list the query returns here
MaxListLen == 3

\* records the platform may list for one (application_name, environment_name)
ReaderRecords ==
    {[EnvironmentId |-> i,
      EnvironmentName |-> "e1",
      ApplicationName |-> "a1",
      Status |-> s,
      CNAME |-> CnameOf(TemporaryPrefix(i))] : i \in 1..MaxListLen, s \in Statuses}

\* the lists describe_environments may answer for one name: any records of
\* that name, in any order, of which at most one is not Terminated (Terminated
\* records stay listed for a while after a new environment took the name)
EnvironmentLists ==
    {l \in UNION {[1..n -> ReaderRecords] : n \in 0..MaxListLen} :
        /\ \A i, j \in DOMAIN l : l[i].EnvironmentId = l[j].EnvironmentId => i = j
        /\ \A i, j \in DOMAIN l :
               (l[i].Status # "Terminated" /\ l[j].Status # "Terminated") => i = j}

ReaderInit ==
    /\ applications = {"a1"}
    /\ app_versions = {}
    /\ environments = {}
    /\ nextId = 1
    /\ pc = "idle"
    /\ params = NoParams
    /\ changed = FALSE
    /\ status = "None"
    /\ current_environment = None
    /\ new_environment = Unbound
    /\ result = NoResult
    /\ calls = <<>>
    /\ start = {}
    /\ branch = "none"
    /\ prev = NoPrev
    /\ runs = 0
    /\ reader_list = <<>>
    /\ reader_environment = None

\* lines 146-153: the query, answered with a list or refused (fail_json)
reader_describe_environments ==
    /\ pc \in {"idle", "done"}
    /\ \/ \E l \in EnvironmentLists :
            /\ reader_list' = l
            /\ pc' = "retrieve"
            /\ result' = NoResult
       \/ /\ reader_list' = <<>>
          /\ pc' = "done"
          /\ result' = fail_json(FALSE, MsgRetrieve)
    /\ reader_environment' = None
    /\ UNCHANGED <<platform, params, locals, calls, start, branch, prev, runs>>

\* lines 154-160: the record returned for the list
reader_retrieve_environment ==
    /\ pc = "retrieve"
    /\ reader_environment' = retrieve_environment(reader_list)
    /\ pc' = "done"
    /\ UNCHANGED <<platform, params, locals, result, calls, start, branch, prev,
                   runs, reader_list>>

ReaderNext ==
    \/ reader_describe_environments
    \/ reader_retrieve_environment

ReaderSpec == ReaderInit /\ [][ReaderNext]_vars

\* ==================================================================== claims
\* the non-Terminated environments of the run's (application, environment name)
Existing ==
    {e \in environments : /\ e.ApplicationName = params.application_name
                          /\ e.EnvironmentName = params.environment_name
                          /\ e.Status # "Terminated"}

\* the run has ended
Done == pc = "done"

\* the operations of the calls the run issued
Issued == {calls[i][1] : i \in DOMAIN calls}

\* the calls of the run that changed the platform
Performed == {calls[i][1] : i \in {j \in DOMAIN calls : calls[j][2] = "ok"}}

C2_NoRemoteMutation ==
    (Done /\ result.msg = MsgCnameInUse) => Performed = {}

\* C2 amended: a run refused for the alias conflict (redeploy=false, alias held
\* by a live environment) has by then issued create_application and
\* create_application_version, each answered ok or already-exists, and nothing
\* else: no environment was created and no alias moved.
C2_ConflictAfterProvisioning ==
    (Done /\ result.msg = MsgCnameInUse) =>
        /\ result.kind = "fail_json"
        /\ ~params.redeploy
        /\ branch = "taken"
        /\ Len(calls) = 2
        /\ calls[1][1] = "create_application"
        /\ calls[2][1] = "create_application_version"
        /\ \A i \in 1..2 : calls[i][2] \in {"ok", "exists"}
        /\ \A e \in environments : \E o \in start :
               o.EnvironmentId = e.EnvironmentId /\ o.CNAME = e.CNAME

\* C2 witness: a run refused for the alias conflict after it created the
\* application and the application version
C2_Witness ==
    /\ Done
    /\ result.msg = MsgCnameInUse
    /\ Performed = {"create_application", "create_application_version"}
    /\ Existing = {}

\* the identifiers of the environments that existed when the run started
StartIds == {o.EnvironmentId : o \in start}

\* the live environments of the run's application that held the requested
\* alias when the run started
StartHolders ==
    {o \in start : /\ o.ApplicationName = params.application_name
                   /\ o.Status # "Terminated"
                   /\ CnamePrefix(o.CNAME) = params.cname}

\* a present run that found the alias taken has returned
SwapRunReturned ==
    /\ Done
    /\ params.state = "present"
    /\ branch = "taken"
    /\ result.kind = "exit_json"

\* what C3 says of a completed blue-green run, but for the alias of E1: a new
\* environment E2 of the requested name was created and swapped with E1, the
\* environment of the application that held the alias, and E2 is returned with
\* changed=true, now under the requested alias
SwapRunOutcome(E1, E2) ==
    /\ params.redeploy
    /\ result.changed
    /\ Len(calls) = 4
    /\ calls[3] = <<"create_environment", "ok">>
    /\ calls[4] = <<"swap_environment_cnames", "ok">>
    /\ E2.EnvironmentId \notin StartIds
    /\ E2.EnvironmentName = params.environment_name
    /\ E2.ApplicationName = params.application_name
    /\ CnamePrefix(E2.CNAME) = params.cname
    /\ E1 \in StartHolders

\* the alias environment E holds now
AliasNow(E) ==
    {e.CNAME : e \in {f \in environments : f.EnvironmentId = E.EnvironmentId}}

\* C3 as stated: after a completed blue-green run E2 holds the requested alias
\* and E1 holds its own pre-swap alias.
C3_SourceKeepsItsAlias ==
    SwapRunReturned =>
        /\ result.environment # None
        /\ \E E1 \in StartHolders :
            /\ SwapRunOutcome(E1, result.environment[1])
            /\ AliasNow(E1) = {E1.CNAME}

\* C3 amended: a present run with redeploy=true that found the alias held by
\* environment E1 of the same application and completed has created a new
\* environment E2 without an alias prefix and swapped the aliases: E2 holds
\* the requested alias, E1 holds the alias the platform had assigned to E2
\* (E2's pre-swap alias), and the run returns changed=true with E2, read under
\* the requested alias.
C3_BlueGreenSwap ==
    SwapRunReturned =>
        /\ result.environment # None
        /\ \E E1 \in StartHolders :
            LET E2 == result.environment[1]
            IN /\ SwapRunOutcome(E1, E2)
               /\ AliasNow(E1) = {CnameOf(TemporaryPrefix(E2.EnvironmentId))}
               /\ AliasNow(E2) = {CnameOf(params.cname)}

\* C3 witness: a completed blue-green run that returned the new environment
\* under the requested alias
C3_Witness ==
    /\ SwapRunReturned
    /\ result.changed
    /\ result.environment # None
    /\ result.environment[1].EnvironmentId \notin StartIds
    /\ CnamePrefix(result.environment[1].CNAME) = params.cname
    /\ "swap_environment_cnames" \in Performed

\* C4: a present run that found the alias free and completed has created
\* exactly one environment, bound to the requested alias prefix, and returns
\* changed=true with that environment's record in status Ready.
C4_DirectCreate ==
    (Done /\ params.state = "present" /\ branch = "free"
          /\ result.kind = "exit_json") =>
        /\ params.solution_stack \in AvailableSolutionStacks
        /\ result.changed
        /\ {i \in DOMAIN calls : calls[i][1] = "create_environment"} = {3}
        /\ calls[3][2] = "ok"
        /\ Len(calls) = 3
        /\ result.environment # None
        /\ LET E == result.environment[1]
           IN /\ E.Status = "Ready"
              /\ E.EnvironmentId \notin StartIds
              /\ E.EnvironmentName = params.environment_name
              /\ E.ApplicationName = params.application_name
              /\ CnamePrefix(E.CNAME) = params.cname
              /\ \A e \in environments :
                    e.EnvironmentId \notin StartIds => e.EnvironmentId = E.EnvironmentId

\* C4 witness: a completed run of the alias-free branch
C4_Witness ==
    /\ Done
    /\ params.state = "present"
    /\ branch = "free"
    /\ result.kind = "exit_json"
    /\ result.environment # None
    /\ result.environment[1].Status = "Ready"
    /\ result.changed

\* the environments of the run's (application, environment name) that were
\* not Terminated when the run started
StartExisting ==
    {o \in start : /\ o.ApplicationName = params.application_name
                   /\ o.EnvironmentName = params.environment_name
                   /\ o.Status # "Terminated"}

\* C5: a present run with redeploy=false that starts with no environment of
\* the requested name and completes returns changed=true; the same input run
\* again right after it returns changed=false and issues no mutating call
\* (unless the platform refuses its read of the environment).
C5_Idempotent ==
    (Done /\ params.state = "present" /\ ~params.redeploy) =>
        /\ (result.kind = "exit_json" /\ StartExisting = {}) => result.changed
        /\ (prev.repeat /\ prev.kind = "exit_json" /\ prev.changed) =>
              \/ result.msg = MsgRetrieve
              \/ /\ result.kind = "exit_json"
                 /\ ~result.changed
                 /\ result.environment # None
                 /\ calls = <<>>

\* C5 witness: the second of two identical runs, the first of which returned
\* changed=true, has returned changed=false
C5_Witness ==
    /\ Done
    /\ params.state = "present"
    /\ ~params.redeploy
    /\ prev.repeat
    /\ prev.kind = "exit_json"
    /\ prev.changed
    /\ result.kind = "exit_json"
    /\ ~result.changed
    /\ calls = <<>>

\* the step of lines 221-255 was taken and the platform answered that the
\* version label already exists
VersionExistsStep ==
    /\ pc = "create_application_version"
    /\ pc' # pc
    /\ calls' = Append(calls, <<"create_application_version", "exists">>)

\* C6: when create_application_version reports that the label exists, a
\* recorded bucket or key that differs from the requested one ends the run
\* with the configuration-conflict error (no environment is created or
\* swapped by that run); identical bucket and key let the run go on to the
\* alias check with `changed` as it was.
C6_ExistingVersion ==
    /\ [][VersionExistsStep =>
            \E v \in ExistingVersions :
                IF \/ v.S3Bucket # params.application_s3_bucket
                   \/ v.S3Key # params.application_s3_key
                THEN /\ pc' = "done"
                     /\ result' = fail_json(changed, MsgVersionMismatch)
                     /\ UNCHANGED platform
                ELSE /\ pc' = "check_dns_availability"
                     /\ changed' = changed
                     /\ result' = result
                     /\ UNCHANGED platform]_vars
    /\ []((Done /\ result.msg = MsgVersionMismatch) =>
            /\ Issued = {"create_application", "create_application_version"}
            /\ \A e \in environments : \E o \in start :
                   o.EnvironmentId = e.EnvironmentId /\ o.CNAME = e.CNAME)

\* C6 witness: a run refused because the recorded version has the requested
\* bucket but another key
C6_Witness ==
    /\ Done
    /\ result.kind = "fail_json"
    /\ result.msg = MsgVersionMismatch
    /\ \E v \in ExistingVersions :
           /\ v.S3Bucket = params.application_s3_bucket
           /\ v.S3Key # params.application_s3_key

\* C7: an absent run that finds no non-Terminated environment fails with the
\* not-found error and never calls terminate; one that finds it requests the
\* termination once, leaves its wait loop only when a read finds the
\* environment absent or Terminated (or the read fails), and returns
\* changed=true with environment=null.
C7_Absent ==
    /\ [][(pc = "absent" /\ pc' # pc /\ result'.msg # MsgRetrieve) =>
            IF Existing = {}
            THEN /\ pc' = "done"
                 /\ result' = fail_json(FALSE, MsgNotFound)
                 /\ calls' = <<>>
                 /\ UNCHANGED platform
            ELSE pc' = "terminate" /\ calls' = <<>>]_vars
    /\ [][(pc = "terminate" /\ pc' # pc) =>
            /\ Len(calls') = 1
            /\ calls'[1][1] = "terminate_environment"]_vars
    /\ [][(pc = "wait_terminated" /\ pc' # pc /\ Existing # {}) =>
            result'.msg = MsgRetrieve]_vars
    /\ []((Done /\ params.state = "absent") =>
            /\ Len(calls) <= 1
            /\ Issued \subseteq {"terminate_environment"}
            /\ result.msg = MsgNotFound => calls = <<>>
            /\ result.kind = "exit_json" =>
                  /\ result.changed
                  /\ result.environment = None
                  /\ calls = << <<"terminate_environment", "ok">> >>
                  /\ Existing = {})

\* C7 witness: an absent run that terminated an environment has returned
C7_Witness ==
    /\ Done
    /\ params.state = "absent"
    /\ result = exit_json(TRUE, None)
    /\ StartExisting # {}
    /\ calls = << <<"terminate_environment", "ok">> >>

\* C8: a restarted run that finds no non-Terminated environment fails with
\* the not-found error and never calls restart; one that finds it requests
\* the restart, leaves its wait loop when a read shows Ready, and returns
\* changed=true with the record read after the loop.
C8_Restarted ==
    /\ [][(pc = "restarted" /\ pc' # pc /\ result'.msg # MsgRetrieve) =>
            IF Existing = {}
            THEN /\ pc' = "done"
                 /\ result' = fail_json(FALSE, MsgNotFound)
                 /\ calls' = <<>>
                 /\ UNCHANGED platform
            ELSE pc' = "restart" /\ calls' = <<>>]_vars
    /\ [][(pc = "restart" /\ pc' # pc) =>
            /\ Len(calls') = 1
            /\ calls'[1][1] = "restart_app_server"]_vars
    /\ [][(pc = "wait_restarted" /\ pc' = "restarted_return") =>
            \E e \in Existing : e.Status = "Ready"]_vars
    /\ [][(pc = "restarted_return" /\ pc' # pc /\ result'.msg # MsgRetrieve) =>
            \E e \in Existing : result' = exit_json(TRUE, Some(e))]_vars
    /\ []((Done /\ params.state = "restarted") =>
            /\ Len(calls) <= 1
            /\ Issued \subseteq {"restart_app_server"}
            /\ result.msg = MsgNotFound => calls = <<>>
            /\ result.kind = "exit_json" =>
                  /\ result.changed
                  /\ result.environment # None
                  /\ result.environment[1].Status = "Ready"
                  /\ calls = << <<"restart_app_server", "ok">> >>)

\* C8 witness: a restarted run has returned the environment, Ready
C8_Witness ==
    /\ Done
    /\ params.state = "restarted"
    /\ result.kind = "exit_json"
    /\ result.changed
    /\ result.environment # None
    /\ result.environment[1].Status = "Ready"
    /\ calls = << <<"restart_app_server", "ok">> >>

\* C9: every run that ends, ends in a success result (exit_json) or in a
\* fatal failure raised through fail_json, never in an uncaught exception.
C9_ExitOrFail ==
    Done => result.kind \in {"exit_json", "fail_json"}

\* C10: a run refused for a missing or unknown solution stack, or (absent,
\* restarted) for an environment that is not found, has issued no mutating
\* call; and a present run that passes the short-circuit with such a solution
\* stack is refused at that step, with the platform untouched.
C10_ValidationFirst ==
    /\ [][(pc = "solution_stacks" /\ pc' # pc
              /\ params.solution_stack \notin AvailableSolutionStacks) =>
            /\ pc' = "done"
            /\ result' = fail_json(FALSE, IF params.solution_stack = ""
                                          THEN MsgNoStack ELSE MsgUnknownStack)
            /\ calls' = <<>>
            /\ UNCHANGED platform]_vars
    /\ []((Done /\ result.msg \in {MsgNoStack, MsgUnknownStack, MsgNotFound}) =>
            /\ result.kind = "fail_json"
            /\ calls = <<>>
            /\ \A e \in environments : \E o \in start :
                   o.EnvironmentId = e.EnvironmentId /\ o.CNAME = e.CNAME)

\* C10 witness: a present run with redeploy=true on an existing environment
\* was refused for its unknown solution stack
C10_Witness ==
    /\ Done
    /\ params.state = "present"
    /\ result = fail_json(FALSE, MsgUnknownStack)
    /\ StartExisting # {}
    /\ calls = <<>>

\* C11: in the alias-taken, redeploy=true branch a create_environment answered
\* "already exists" records no change and surfaces no error, and the run goes
\* on to issue the swap from the source environment to the environment that
\* already exists; a run in which that happened does not end before its swap
\* call and never ends in an uncaught exception.
C11_AlreadyExistsTolerated ==
    (/\ Done
     /\ params.state = "present"
     /\ branch = "taken"
     /\ \E i \in DOMAIN calls : calls[i] = <<"create_environment", "exists">>)
    => /\ result.kind \in {"exit_json", "fail_json"}
       /\ "swap_environment_cnames" \in Issued

\* the step of lines 287-304 was taken, the platform answered the listing, and
\* no environment of the requested application holds the requested prefix
SourceNotFoundStep ==
    /\ pc = "current_environment"
    /\ pc' # pc
    /\ result'.msg # MsgRetrieve
    /\ MatchingCname(describe_application_environments(params.application_name),
                     params.cname) = <<>>

\* C12: in the alias-taken, redeploy=true branch, when no environment of the
\* requested application holds the requested alias prefix the run ends with
\* the source-lookup fatal failure (fail_json with the "Unable to derive CNAME
\* prefix" message) and creates no environment.
C12_SourceLookupFails ==
    [][SourceNotFoundStep =>
          /\ pc' = "done"
          /\ result' = fail_json(changed, MsgDeriveCname)
          /\ UNCHANGED platform]_vars

\* the order in which make_present issues its mutating calls
PresentOrder ==
    <<"create_application", "create_application_version",
      "create_environment", "swap_environment_cnames">>

\* C13: inside one present run the mutating calls come in the order
\* create_application, create_application_version, create_environment,
\* swap_environment_cnames (so every create-environment call has both
\* provisioning calls before it and every swap has a create-environment call
\* before it); a call is followed by another only if it succeeded or was
\* answered "already exists"; and the read whose record is returned comes after
\* all of them: the step that returns issues no call and changes nothing.
C13_StepOrdering ==
    /\ [](params.state = "present" =>
            /\ Len(calls) <= Len(PresentOrder)
            /\ \A i \in DOMAIN calls : calls[i][1] = PresentOrder[i]
            /\ \A i \in DOMAIN calls :
                   i < Len(calls) => calls[i][2] \in {"ok", "exists"})
    /\ [][(pc = "return" /\ pc' # pc) =>
            /\ pc' = "done"
            /\ calls' = calls
            /\ UNCHANGED platform
            /\ \/ result' = fail_json(changed, MsgRetrieve)
               \/ result' = exit_json(changed, Retrieved)]_vars

\* C13 witness: a present run that issued all four calls, each answered ok or
\* already-exists, has returned the record of its final read
C13_Witness ==
    /\ Done
    /\ params.state = "present"
    /\ result.kind = "exit_json"
    /\ result.environment # None
    /\ Len(calls) = 4
    /\ \A i \in DOMAIN calls : calls[i][2] \in {"ok", "exists"}
    /\ calls[2][2] = "exists"

\* the environments that are not Terminated
Live == {e \in environments : e.Status # "Terminated"}

\* the step is a swap_environment_cnames call of make_present that succeeded
SwapStep ==
    /\ pc = "swap"
    /\ calls' = Append(calls, <<"swap_environment_cnames", "ok">>)

\* C14: in every reachable state, during and after a run and between a swap
\* request and its completion, no two non-Terminated environments hold the
\* same alias; the alias of an environment changes, and an alias passes from
\* one live environment to another, only in a successful swap step; and in the
\* alias-taken branch an environment the run created holds the requested alias
\* only once the run's swap has succeeded.
C14_AliasHeldOnce ==
    /\ [](\A a, b \in Live : a.CNAME = b.CNAME => a.EnvironmentId = b.EnvironmentId)
    /\ [][(\E a \in Live : \E b \in environments' :
              /\ b.Status # "Terminated"
              /\ \/ a.EnvironmentId = b.EnvironmentId /\ a.CNAME # b.CNAME
                 \/ a.EnvironmentId # b.EnvironmentId /\ a.CNAME = b.CNAME)
           => SwapStep]_vars
    /\ []((params.state = "present" /\ branch = "taken") =>
            \A e \in environments :
                (e.EnvironmentId \notin StartIds
                    /\ CnamePrefix(e.CNAME) = params.cname)
                => "swap_environment_cnames" \in Performed)

\* C14 witness: between a successful swap request and its completion (both
\* environments Updating) the requested alias is held by the new environment
\* alone
C14_Witness ==
    /\ pc = "wait_swapped"
    /\ \E a, b \in Live :
        /\ a.EnvironmentId # b.EnvironmentId
        /\ a.Status = "Updating"
        /\ b.Status = "Updating"
        /\ a.EnvironmentId \in StartIds
        /\ b.EnvironmentId \notin StartIds
        /\ CnamePrefix(b.CNAME) = params.cname
        /\ a.CNAME # b.CNAME

\* the step is a swap_environment_cnames call of make_present that was refused
SwapFailedStep ==
    /\ pc = "swap"
    /\ calls' = Append(calls, <<"swap_environment_cnames", "error">>)

\* C15: a refused swap ends the run with the swap fail_json and nothing is
\* rolled back: the failing step leaves every platform record as it was, so
\* the source keeps its record and the new destination is still live (Ready)
\* under the alias it was read with; the swap is the last call of the run, and
\* the run has issued no terminate call.
C15_SwapFailureFatal ==
    /\ [][SwapFailedStep =>
            /\ pc' = "done"
            /\ result' = fail_json(changed, MsgSwap)
            /\ UNCHANGED platform
            /\ \E d \in environments' :
                /\ d = new_environment.value[1]
                /\ d.Status = "Ready"
                /\ d.EnvironmentId \notin StartIds
                /\ d.EnvironmentId # current_environment[1].EnvironmentId
            /\ \A s \in environments :
                   s.EnvironmentId = current_environment[1].EnvironmentId
                   => s \in environments']_vars
    /\ []((Done /\ result.msg = MsgSwap) =>
            /\ result.kind = "fail_json"
            /\ Len(calls) = 4
            /\ calls[4] = <<"swap_environment_cnames", "error">>
            /\ "terminate_environment" \notin Issued)

\* C15 witness: a run has ended on a refused swap with the source and the new
\* destination both Ready, the source still under the requested alias
C15_Witness ==
    /\ Done
    /\ result = fail_json(TRUE, MsgSwap)
    /\ \E s, d \in Live :
        /\ s \in StartHolders
        /\ s.Status = "Ready"
        /\ d.EnvironmentId \notin StartIds
        /\ d.EnvironmentName = params.environment_name
        /\ d.Status = "Ready"
        /\ CnamePrefix(d.CNAME) # params.cname

\* C16: no mutating call is retried: at every point of a run each of
\* create_application, create_application_version, create_environment,
\* swap_environment_cnames, terminate_environment and restart_app_server has
\* been issued at most once, and an iteration of a poll loop issues no call
\* and changes nothing on the platform: it reads the environment and stays in
\* the loop, leaves it, or ends the run on a failed read.
C16_NoRetry ==
    /\ [](\A i, j \in DOMAIN calls : calls[i][1] = calls[j][1] => i = j)
    /\ [][(pc \in PollLabels) => (calls' = calls)]_vars
    /\ [][(pc \in PollLabels /\ (pc' # pc \/ status' # status)) =>
            /\ UNCHANGED platform
            /\ \/ pc' \in {pc, "new_environment", "return",
                           "absent_return", "restarted_return"}
               \/ pc' = "done" /\ result'.kind # "exit_json"]_vars

\* C16 witness: a poll loop is iterating (its last read was not Ready) after
\* the one create_environment call of the run
C16_Witness ==
    /\ pc = "wait_created"
    /\ status = "Launching"
    /\ Len(calls) = 3
    /\ calls[3] = <<"create_environment", "ok">>

\* the positions of the listed records that are not Terminated
ListedLive == {i \in DOMAIN reader_list : reader_list[i].Status # "Terminated"}

\* C17: retrieve_environment returns None exactly when the list holds no
\* record or only Terminated ones; when the list holds a record that is not
\* Terminated, at whatever position and whatever Terminated records are listed
\* with it, it returns a listed record that is not Terminated.
C17_ReaderReturnsLive ==
    (pc = "done" /\ result = NoResult) =>
        /\ reader_environment = None <=> ListedLive = {}
        /\ ListedLive # {} =>
              \E i \in ListedLive : reader_environment = Some(reader_list[i])

\* the step issues the swap_environment_cnames call of make_present
SwapCallStep ==
    /\ pc = "swap"
    /\ Len(calls') = Len(calls) + 1
    /\ calls'[Len(calls')][1] = "swap_environment_cnames"

\* C18: the swap call is issued only once the wait loop's last read of the
\* environment of the requested name showed Ready; its source is the record
\* found holding the requested alias and its destination the record read for
\* the requested name after the loop, a Ready environment created by this run
\* and other than the source; the call names them by EnvironmentId and
\* EnvironmentName: it is refused unless those pairs name two Ready
\* environments, and when it succeeds it is those two whose aliases are
\* exchanged.
C18_SwapAfterReady ==
    [][SwapCallStep =>
          /\ status = "Ready"
          /\ calls[Len(calls)] = <<"create_environment", "ok">>
          /\ current_environment # None
          /\ new_environment.bound
          /\ new_environment.value # None
          /\ LET src == current_environment[1]
                 dst == new_environment.value[1]
             IN /\ dst.Status = "Ready"
                /\ dst.EnvironmentName = params.environment_name
                /\ dst.ApplicationName = params.application_name
                /\ dst.EnvironmentId \notin StartIds
                /\ dst \in environments
                /\ src.ApplicationName = params.application_name
                /\ CnamePrefix(src.CNAME) = params.cname
                /\ src.EnvironmentId # dst.EnvironmentId
                /\ <<src.EnvironmentId, src.EnvironmentName>>
                       # <<dst.EnvironmentId, dst.EnvironmentName>>
                /\ IF calls'[Len(calls')][2] = "ok"
                   THEN /\ IsReady(src.EnvironmentId, src.EnvironmentName)
                        /\ IsReady(dst.EnvironmentId, dst.EnvironmentName)
                        /\ environments' = EnvironmentsAfterSwap(src.EnvironmentId,
                                                                 dst.EnvironmentId)
                   ELSE environments' = environments]_vars

\* C18 witness: the swap was issued and accepted for a source and a
\* destination that were both read, the destination Ready
C18_Witness ==
    /\ pc = "wait_swapped"
    /\ calls[Len(calls)] = <<"swap_environment_cnames", "ok">>
    /\ current_environment # None
    /\ new_environment.bound
    /\ new_environment.value # None
    /\ new_environment.value[1].Status = "Ready"
    /\ new_environment.value[1].EnvironmentId # current_environment[1].EnvironmentId

\* a run is under way
Running == pc \notin {"idle", "done"}

\* C19: under the fairness of FairSpec (the process keeps running, the
\* platform brings every Launching or Updating environment out of that status
\* and every Terminating one to Terminated) every run of present, absent and
\* restarted that starts eventually ends. No timeout or retry limit ends a
\* wait: a wait-for-Ready loop is left only on a read that shows Ready, on a
\* read that finds no environment (uncaught TypeError) or on a refused read,
\* and the wait of the absent handler only on a read that finds no
\* environment or on a refused read; so without the platform's progress a
\* run whose environment stays as it is stays in its loop.
C19_Termination ==
    /\ Running ~> Done
    /\ [][(pc \in PollLabels \ {"wait_terminated"} /\ pc' # pc) =>
            \/ status' = "Ready" /\ pc' # "done"
                 /\ \E e \in Existing : e.Status = "Ready"
            \/ result' = exception(changed, "TypeError") /\ Existing = {}
            \/ result' = fail_json(changed, MsgRetrieve)]_vars
    /\ [][(pc = "wait_terminated" /\ pc' # pc) =>
            \/ pc' = "absent_return" /\ Existing = {}
            \/ result' = fail_json(changed, MsgRetrieve)]_vars

\* C19 witness: a present run that created an environment, Launching when
\* created, and waited for it has ended, returning it Ready
C19_Witness ==
    /\ Done
    /\ result.kind = "exit_json"
    /\ result.changed
    /\ result.environment # None
    /\ result.environment[1].Status = "Ready"
    /\ \A o \in start : o.EnvironmentId # result.environment[1].EnvironmentId
    /\ params.state = "present"
    /\ branch = "free"
    /\ runs = 1

\* a present run has returned (module.exit_json)
PresentReturned ==
    /\ Done
    /\ params.state = "present"
    /\ result.kind = "exit_json"

\* C20: a present run that returns reports changed=false exactly when it took
\* the short-circuit (an environment was read, redeploy=false, no call was
\* issued); a run that returns past the short-circuit reports changed=true and
\* has by then had a create_environment or a swap call accepted; within a run
\* `changed` never goes back from true to false, and the value returned is the
\* value `changed` has when the run ends.
C20_ChangedFlag ==
    /\ [](PresentReturned =>
            /\ ~result.changed <=> branch = "none"
            /\ branch = "none" =>
                  /\ ~params.redeploy
                  /\ result.environment # None
                  /\ calls = <<>>
            /\ branch # "none" =>
                  /\ result.changed
                  /\ \/ "create_environment" \in Performed
                     \/ "swap_environment_cnames" \in Performed)
    /\ [][(changed /\ pc' # "done") => changed']_vars
    /\ [][(Running /\ pc' = "done") => result'.changed = changed]_vars

\* C20 witness: a present run past the short-circuit has returned changed=true
\* although the application and the version existed already: only its
\* create_environment call changed anything
C20_Witness ==
    /\ PresentReturned
    /\ result.changed
    /\ branch = "free"
    /\ calls = << <<"create_application", "exists">>,
                  <<"create_application_version", "exists">>,
                  <<"create_environment", "ok">> >>

====
